---- MODULE Spec2Model ----
(***************************************************************************)
(* ncx.py: a proxy around the real nc.  main() resolves the real binary    *)
(* (find_real_nc), spawns it and captures its two output pipes (run_nc),   *)
(* echoes the decoded capture, prints a banner, asks the interpretation    *)
(* backend for an explanation (explain_with_ai) and exits.                 *)
(*                                                                         *)
(* Bytes and characters are numbers (byte values, Unicode code points);    *)
(* a stream is a sequence of them.                                         *)
(***************************************************************************)
EXTENDS Integers, Sequences, FiniteSets, TLC

\* ------------------------------------------------------------------ bounds
\* Longest stream a child writes (the placeholder text is added on its own).
MaxLen == 3
\* Capacity of one OS pipe, in bytes.
PipeCap == 2

\* --------------------------------------------------------------- constants
\* sys.exit(2): the code of every "could not run nc" exit.
SentinelCode == 2

Candidates == <<"/usr/bin/nc", "/bin/nc", "/usr/local/bin/nc", "/sbin/nc">>
OverridePath == "$NC_REAL"
WhichPath == "$PATH/nc"
NotFound == "NotFound"
Paths == {OverridePath} \cup {Candidates[i] : i \in 1..Len(Candidates)}

Streams == {"out", "err"}
Newline == 10
ReplacementChar == 65533
\* "(empty)"
Placeholder == <<40, 101, 109, 112, 116, 121, 41>>

\* ------------------------------------------------------------------- state
VARIABLES
    ncRealSet,    \* os.environ.get("NC_REAL") is a non-empty string
    fileStat,     \* the filesystem: path -> "absent" | "noexec" | "exec"
    whichNc,      \* shutil.which("nc") finds a binary
    childCode,    \* the exit code the child program ends with
    childWrites,  \* the bytes the child program writes, per stream
    pc,           \* where main() is
    real_nc,      \* main's real_nc
    childState,   \* "none" | "running" | "exited"
    sent,         \* bytes of childWrites the child has written, per stream
    pipe,         \* bytes in each OS pipe, written and not yet read
    captured,     \* communicate()'s buffers, per stream
    code,         \* main's code (<<>> until run_nc returns)
    decoded,      \* main's out_s and err_s (<<>> until decoded)
    term,         \* the captured text echoed to sys.stdout / sys.stderr
    outLog,       \* what main wrote to sys.stdout, in order
    errLog,       \* what the proxy wrote to sys.stderr, in order
    aiArgs,       \* the arguments explain_with_ai was called with
    transcript,   \* the dict handed to chain.invoke
    aiOutcome,    \* "none" | "ok" | "error" | "interrupt"
    failure,      \* "none" | "resolution" | "spawn_notfound" | "spawn_error"
    interruptedAt,\* "none" | "wait" | "explain"
    exitStatus    \* <<>> while running, <<c>> once the proxy exited with c

inputs == <<ncRealSet, fileStat, whichNc, childCode, childWrites>>
proc == <<childState, sent, pipe, captured>>
report == <<code, decoded, term, outLog, errLog, aiArgs, transcript, aiOutcome>>
vars == <<inputs, pc, real_nc, proc, report, failure, interruptedAt, exitStatus>>

\* ----------------------------------------------------------- pure helpers
RECURSIVE SeqsUpTo(_, _)
SeqsUpTo(S, n) ==
    IF n = 0 THEN {<<>>}
    ELSE LET shorter == SeqsUpTo(S, n - 1)
         IN  shorter \cup {Append(s, x) : s \in {t \in shorter : Len(t) = n - 1}, x \in S}

\* os.path.isfile(p) and os.access(p, os.X_OK)
IsExecutableFile(p) == fileStat[p] = "exec"

RECURSIVE ProbeCandidates(_)
ProbeCandidates(i) ==
    IF i > Len(Candidates) THEN NotFound
    ELSE IF IsExecutableFile(Candidates[i]) THEN Candidates[i]
    ELSE ProbeCandidates(i + 1)

RECURSIVE ProbeCandidatesBackwards(_)
ProbeCandidatesBackwards(i) ==
    IF i < 1 THEN NotFound
    ELSE IF IsExecutableFile(Candidates[i]) THEN Candidates[i]
    ELSE ProbeCandidatesBackwards(i - 1)

find_real_nc_last_candidate_first ==
    IF ncRealSet /\ IsExecutableFile(OverridePath) THEN OverridePath
    ELSE IF ProbeCandidatesBackwards(Len(Candidates)) # NotFound
         THEN ProbeCandidatesBackwards(Len(Candidates))
    ELSE IF whichNc THEN WhichPath
    ELSE NotFound

\* The path find_real_nc returns, or NotFound where it exits.
find_real_nc ==
    IF ncRealSet /\ IsExecutableFile(OverridePath) THEN OverridePath
    ELSE IF ProbeCandidates(1) # NotFound THEN ProbeCandidates(1)
    ELSE IF whichNc THEN WhichPath
    ELSE NotFound

\* bytes.decode(errors="replace"), on bytes that start no multi-byte sequence:
\* an ASCII byte is its character, any other byte becomes U+FFFD.
DecodeByte(b) == IF b < 128 THEN b ELSE ReplacementChar
Decode(bs) == [i \in 1..Len(bs) |-> DecodeByte(bs[i])]

\* str.isspace(): the characters str.strip() removes.
IsSpace(c) ==
    \/ c \in 9..13
    \/ c \in 28..32
    \/ c \in {133, 160, 5760, 8232, 8233, 8239, 8287, 12288}
    \/ c \in 8192..8202

RECURSIVE LStrip(_)
LStrip(s) == IF s # <<>> /\ IsSpace(Head(s)) THEN LStrip(Tail(s)) ELSE s
RECURSIVE RStrip(_)
RStrip(s) ==
    IF s # <<>> /\ IsSpace(s[Len(s)]) THEN RStrip(SubSeq(s, 1, Len(s) - 1)) ELSE s
\* str.strip()
Strip(s) == RStrip(LStrip(s))

EchoTextAlwaysNewline(s) == IF s # <<>> /\ s[Len(s)] = Newline THEN s ELSE Append(s, Newline)

\* What main writes to a terminal stream for the decoded text s.
EchoText(s) ==
    IF s = <<>> THEN <<>>
    ELSE IF s[Len(s)] = Newline THEN s
    ELSE Append(s, Newline)

TranscriptFieldTrimmed(s) == IF Strip(s) # <<>> THEN Strip(s) ELSE Placeholder

\* stdout if stdout.strip() else "(empty)"
TranscriptField(s) == IF Strip(s) # <<>> THEN s ELSE Placeholder

\* ------------------------------------------------------------------ inputs
FileStats == {"absent", "noexec", "exec"}
\* Every environment: NC_REAL unset (then its path names nothing) or set to a
\* path in any state, every state of the four candidates, and of PATH.
EnvAll ==
    {<<o, f, w>> : o \in BOOLEAN, f \in [Paths -> FileStats], w \in BOOLEAN}
        \ {e \in {<<FALSE, f, w>> : f \in [Paths -> FileStats], w \in BOOLEAN} :
              e[2][OverridePath] # "absent"}
\* The environments in which only NC_REAL and /usr/bin/nc may exist.
EnvFew ==
    {e \in EnvAll :
        /\ ~e[3]
        /\ e[2][OverridePath] # "noexec"
        /\ e[2][Candidates[1]] # "noexec"
        /\ \A i \in 2..Len(Candidates) : e[2][Candidates[i]] = "absent"}
\* NC_REAL unset and /usr/bin/nc the only binary.
EnvUsrBin == {e \in EnvFew : ~e[1] /\ e[2][Candidates[1]] = "exec"}

ExitCodes == 0..255
CodesFew == {0, 1, SentinelCode}

\* space, newline, "a", and a byte that is not valid UTF-8
ByteAlphabet == {32, 10, 97, 255}
\* The UTF-8 bytes of the ASCII text "(empty)" are its code points.
PlaceholderBytes == Placeholder
WritesOf(o, e) == [s \in Streams |-> IF s = "out" THEN o ELSE e]
FewBytes == {<<>>, <<97>>, <<32>>}
AllBytes == SeqsUpTo(ByteAlphabet, MaxLen) \cup {PlaceholderBytes}
WritesFew == {WritesOf(<<>>, <<>>), WritesOf(<<97>>, <<>>), WritesOf(<<>>, <<97, 10>>)}
WritesEcho ==
    {WritesOf(o, e) : o \in AllBytes, e \in FewBytes}
        \cup {WritesOf(o, e) : o \in FewBytes, e \in AllBytes}
WritesPipe ==
    {WritesOf(o, e) : o \in SeqsUpTo({97, 10}, MaxLen), e \in SeqsUpTo({255}, MaxLen)}

InitWith(envs, codes, writes) ==
    /\ \E e \in envs :
          /\ ncRealSet = e[1]
          /\ fileStat = e[2]
          /\ whichNc = e[3]
    /\ childCode \in codes
    /\ childWrites \in writes
    /\ pc = "find"
    /\ real_nc = NotFound
    /\ childState = "none"
    /\ sent = [s \in Streams |-> 0]
    /\ pipe = [s \in Streams |-> <<>>]
    /\ captured = [s \in Streams |-> <<>>]
    /\ code = <<>>
    /\ decoded = [s \in Streams |-> <<>>]
    /\ term = [s \in Streams |-> <<>>]
    /\ outLog = <<>>
    /\ errLog = <<>>
    /\ aiArgs = <<>>
    /\ transcript = <<>>
    /\ aiOutcome = "none"
    /\ failure = "none"
    /\ interruptedAt = "none"
    /\ exitStatus = <<>>

\* ----------------------------------------------------------------- actions
\* main, line 126: real_nc = find_real_nc(); NotFound is its sys.exit(2).
FindRealNc ==
    /\ pc = "find"
    /\ IF find_real_nc = NotFound
       THEN /\ errLog' = Append(errLog, "could_not_locate")
            /\ failure' = "resolution"
            /\ exitStatus' = <<SentinelCode>>
            /\ pc' = "exited"
            /\ UNCHANGED real_nc
       ELSE /\ real_nc' = find_real_nc
            /\ pc' = "spawn"
            /\ UNCHANGED <<errLog, failure, exitStatus>>
    /\ UNCHANGED <<inputs, proc, code, decoded, term, outLog, aiArgs, transcript,
                   aiOutcome, interruptedAt>>

SpawnFailureExitOne(kind) ==
    /\ errLog' = Append(errLog, kind)
    /\ failure' = kind
    /\ exitStatus' = <<1>>
    /\ pc' = "exited"
    /\ UNCHANGED childState

\* run_nc's handlers of a failed Popen: a diagnostic and sys.exit(2).
SpawnFailure(kind) ==
    /\ errLog' = Append(errLog, kind)
    /\ failure' = kind
    /\ exitStatus' = <<SentinelCode>>
    /\ pc' = "exited"
    /\ UNCHANGED childState

\* run_nc, subprocess.Popen: the child starts, or Popen raises FileNotFoundError
\* (the binary vanished after resolution) or another Exception.
Popen ==
    /\ pc = "spawn"
    /\ \E outcome \in {"ok", "spawn_notfound", "spawn_error"} :
          IF outcome = "ok"
          THEN /\ childState' = "running"
               /\ pc' = "communicate"
               /\ UNCHANGED <<errLog, failure, exitStatus>>
          ELSE SpawnFailure(outcome)
    /\ UNCHANGED <<inputs, real_nc, sent, pipe, captured, code, decoded, term, outLog,
                   aiArgs, transcript, aiOutcome, interruptedAt>>

\* The child writes its next byte to one of its streams; a full pipe blocks it.
ChildWrite(s) ==
    /\ pc = "communicate"
    /\ childState = "running"
    /\ sent[s] < Len(childWrites[s])
    /\ Len(pipe[s]) < PipeCap
    /\ pipe' = [pipe EXCEPT ![s] = Append(@, childWrites[s][sent[s] + 1])]
    /\ sent' = [sent EXCEPT ![s] = @ + 1]
    /\ UNCHANGED <<inputs, pc, real_nc, childState, captured, report, failure,
                   interruptedAt, exitStatus>>

\* The child has written everything and exits, closing its ends of the pipes.
ChildExit ==
    /\ pc = "communicate"
    /\ childState = "running"
    /\ \A s \in Streams : sent[s] = Len(childWrites[s])
    /\ childState' = "exited"
    /\ UNCHANGED <<inputs, pc, real_nc, sent, pipe, captured, report, failure,
                   interruptedAt, exitStatus>>

ReadReadyStdoutFirst(s) == s = "out" \/ (childState = "exited" /\ pipe["out"] = <<>>)

\* communicate() has both pipes registered for reading until each is at EOF.
ReadReady(s) == s \in Streams

\* communicate() reads a chunk of what a pipe holds into that stream's buffer.
ProxyRead(s) ==
    /\ pc = "communicate"
    /\ ReadReady(s)
    /\ pipe[s] # <<>>
    /\ \E n \in 1..Len(pipe[s]) :
          /\ captured' = [captured EXCEPT ![s] = @ \o SubSeq(pipe[s], 1, n)]
          /\ pipe' = [pipe EXCEPT ![s] = SubSeq(@, n + 1, Len(@))]
    /\ UNCHANGED <<inputs, pc, real_nc, childState, sent, report, failure,
                   interruptedAt, exitStatus>>

\* Both pipes are at EOF and the child is reaped: run_nc returns
\* (proc.returncode, stdout, stderr).
CommunicateReturn ==
    /\ pc = "communicate"
    /\ childState = "exited"
    /\ \A s \in Streams : pipe[s] = <<>>
    /\ code' = <<childCode>>
    /\ pc' = "returned"
    /\ UNCHANGED <<inputs, real_nc, proc, decoded, term, outLog, errLog, aiArgs,
                   transcript, aiOutcome, failure, interruptedAt, exitStatus>>

KeyboardInterruptSwallowed ==
    /\ pc = "communicate"
    /\ code' = <<SentinelCode>>
    /\ pc' = "returned"
    /\ interruptedAt' = "wait"
    /\ UNCHANGED <<inputs, real_nc, proc, decoded, term, outLog, errLog, aiArgs,
                   transcript, aiOutcome, failure, exitStatus>>

\* run_nc, except KeyboardInterrupt: raise; main does not catch it.
KeyboardInterruptInWait ==
    /\ pc = "communicate"
    /\ pc' = "interrupted"
    /\ interruptedAt' = "wait"
    /\ UNCHANGED <<inputs, real_nc, proc, report, failure, exitStatus>>

\* main, lines 129-139: decode both buffers and echo them.
Echo ==
    /\ pc = "returned"
    /\ decoded' = [s \in Streams |-> Decode(captured[s])]
    /\ term' = [s \in Streams |-> EchoText(decoded'[s])]
    /\ outLog' = IF decoded'["out"] # <<>> THEN Append(outLog, "echo") ELSE outLog
    /\ errLog' = IF decoded'["err"] # <<>> THEN Append(errLog, "echo") ELSE errLog
    /\ pc' = "banner"
    /\ UNCHANGED <<inputs, real_nc, proc, code, aiArgs, transcript, aiOutcome, failure,
                   interruptedAt, exitStatus>>

\* main, line 141: the banner.
Banner ==
    /\ pc = "banner"
    /\ outLog' = Append(outLog, "banner")
    /\ pc' = "explain"
    /\ UNCHANGED <<inputs, real_nc, proc, code, decoded, term, errLog, aiArgs,
                   transcript, aiOutcome, failure, interruptedAt, exitStatus>>

ExitAfterExplainFailureSentinel == <<SentinelCode>>

\* main, line 150: sys.exit(code) in the handler of a failed explanation.
ExitAfterExplainFailure == code

\* explain_with_ai's call of chain.invoke: the transcript it builds.
BuildTranscript ==
    [code |-> code[1],
     stdout |-> TranscriptField(decoded["out"]),
     stderr |-> TranscriptField(decoded["err"])]

\* main, lines 143-152: the call of explain_with_ai.  It returns (the text is
\* printed), raises an Exception before the transcript is built (the client's
\* construction) or from the backend call, or is interrupted.
Explain ==
    /\ pc = "explain"
    /\ aiArgs' = <<[code |-> code[1], stdout |-> decoded["out"], stderr |-> decoded["err"]]>>
    /\ \E outcome \in {"ok", "error_setup", "error_invoke", "interrupt"} :
          /\ transcript' = IF outcome = "error_setup" THEN <<>> ELSE <<BuildTranscript>>
          /\ CASE outcome = "ok" ->
                    /\ aiOutcome' = "ok"
                    /\ outLog' = Append(outLog, "explanation")
                    /\ exitStatus' = code
                    /\ pc' = "exited"
                    /\ UNCHANGED <<errLog, interruptedAt>>
               [] outcome = "interrupt" ->
                    /\ aiOutcome' = "interrupt"
                    /\ interruptedAt' = "explain"
                    /\ pc' = "interrupted"
                    /\ UNCHANGED <<outLog, errLog, exitStatus>>
               [] OTHER ->
                    /\ aiOutcome' = "error"
                    /\ errLog' = Append(errLog, "ai_failed")
                    /\ exitStatus' = ExitAfterExplainFailure
                    /\ pc' = "exited"
                    /\ UNCHANGED <<outLog, interruptedAt>>
    /\ UNCHANGED <<inputs, real_nc, proc, code, decoded, term, failure>>

Next ==
    \/ FindRealNc
    \/ Popen
    \/ \E s \in Streams : ChildWrite(s)
    \/ ChildExit
    \/ \E s \in Streams : ProxyRead(s)
    \/ CommunicateReturn
    \/ KeyboardInterruptInWait
    \/ Echo
    \/ Banner
    \/ Explain

\* Exit codes: every code of the child, a few environments and outputs.
Init == InitWith(EnvFew, ExitCodes, WritesFew)
Spec == Init /\ [][Next]_vars

\* Resolution: every environment.
InitResolve == InitWith(EnvAll, CodesFew, WritesFew)
SpecResolve == InitResolve /\ [][Next]_vars

\* Echo and transcript: every output text, of either stream.
InitEcho == InitWith(EnvUsrBin, CodesFew, WritesEcho)
SpecEcho == InitEcho /\ [][Next]_vars

\* The pipes: outputs longer than a pipe on both streams.  communicate() keeps
\* reading while a pipe has data and returns once both are at EOF.
InitPipe == InitWith(EnvUsrBin, CodesFew, WritesPipe)
SpecPipe ==
    /\ InitPipe
    /\ [][Next]_vars
    /\ \A s \in Streams : WF_vars(ProxyRead(s))
    /\ WF_vars(CommunicateReturn)

\* ------------------------------------------------------------------ claims
Range(q) == {q[i] : i \in 1..Len(q)}
EndsInNewline(d) == d # <<>> /\ d[Len(d)] = Newline
Blank(d) == \A i \in 1..Len(d) : IsSpace(d[i])
\* main is past the echo of the captured output (lines 132-139).
Echoed == code # <<>> /\ pc \notin {"communicate", "returned"}
NothingReported ==
    /\ \A s \in Streams : term[s] = <<>>
    /\ outLog = <<>>
    /\ aiArgs = <<>>
    /\ transcript = <<>>
    /\ aiOutcome = "none"

\* C1: when the child was spawned and ended with exit code c, for every c in
\* 0..255, the proxy exits with exactly c, both when explain_with_ai returned
\* and when it raised an error.
C1_ExitCodeIsChilds ==
    (pc = "exited" /\ childState = "exited" /\ aiOutcome \in {"ok", "error"})
        => exitStatus = <<childCode>>
C1_Witness ==
    /\ pc = "exited"
    /\ childState = "exited"
    /\ aiOutcome = "error"
    /\ childCode = 255
    /\ exitStatus = <<255>>

\* C2: when NC_REAL is set to a path that does not exist or is not executable,
\* find_real_nc fails with the sentinel code and returns no binary, whatever
\* the candidates and PATH hold, and no child is created.
C2_BadOverrideIsFatal ==
    (ncRealSet /\ ~IsExecutableFile(OverridePath) /\ pc # "find")
        => /\ failure = "resolution"
           /\ exitStatus = <<SentinelCode>>
           /\ real_nc = NotFound
           /\ childState = "none"

\* C3: the sentinel exit code is none of the codes the proxy exits with after
\* the child ran, so the exit code alone tells "could not run the tool" from
\* "the tool ran".
C3_SentinelIsDistinct ==
    (pc = "exited" /\ childState = "exited" /\ failure = "none")
        => exitStatus # <<SentinelCode>>

C4_FirstCandidates ==
    {i \in 1..Len(Candidates) :
        /\ fileStat[Candidates[i]] = "exec"
        /\ \A j \in 1..(i - 1) : fileStat[Candidates[j]] # "exec"}
C4_Expected ==
    IF ncRealSet /\ fileStat[OverridePath] = "exec" THEN {OverridePath}
    ELSE IF C4_FirstCandidates # {} THEN {Candidates[i] : i \in C4_FirstCandidates}
    ELSE IF whichNc THEN {WhichPath}
    ELSE {NotFound}
\* C4: find_real_nc returns the override when it is set and an executable
\* file; otherwise the first executable candidate in the fixed order;
\* otherwise the PATH match; and fails only when all three probes fail.
C4_ResolutionOrder ==
    pc # "find"
        => /\ real_nc \in C4_Expected
           /\ (failure = "resolution") <=> (C4_Expected = {NotFound})
C4_Witness ==
    /\ pc = "spawn"
    /\ ~ncRealSet
    /\ \A i \in 1..Len(Candidates) : fileStat[Candidates[i]] # "exec"
    /\ whichNc
    /\ real_nc = WhichPath

\* C5: when resolution or the spawn fails, the proxy writes one diagnostic to
\* standard error, exits with the sentinel code 2, and echoes nothing, prints
\* no banner and never calls the backend; on a resolution failure no child
\* was ever spawned.
C5_FatalBeforeChild ==
    failure # "none"
        => /\ pc = "exited"
           /\ exitStatus = <<SentinelCode>>
           /\ errLog = <<IF failure = "resolution" THEN "could_not_locate" ELSE failure>>
           /\ NothingReported
           /\ code = <<>>
           /\ failure = "resolution" => (childState = "none" /\ real_nc = NotFound)
C5_Witness ==
    /\ failure = "spawn_error"
    /\ pc = "exited"
    /\ exitStatus = <<SentinelCode>>
    /\ real_nc = Candidates[1]

\* C6: a KeyboardInterrupt during the wait for the child leaves run_nc and
\* main as an exception: no exit code is set, nothing is echoed and
\* explain_with_ai is never called.
C6_InterruptPropagates ==
    interruptedAt = "wait"
        => /\ pc = "interrupted"
           /\ exitStatus = <<>>
           /\ code = <<>>
           /\ errLog = <<>>
           /\ NothingReported
C6_Witness ==
    /\ interruptedAt = "wait"
    /\ pc = "interrupted"
    /\ captured["err"] # <<>>

\* C7 as stated: the text echoed for a decoded stream s is s when s ends in a
\* newline and s plus one newline when it does not; explain_with_ai gets s.
C7_EchoAsStated ==
    Echoed =>
        \A s \in Streams :
            LET d == Decode(captured[s])
            IN  /\ term[s] = IF EndsInNewline(d) THEN d ELSE d \o <<Newline>>
                /\ aiArgs # <<>> =>
                      (IF s = "out" THEN aiArgs[1].stdout ELSE aiArgs[1].stderr) = d
\* C7, amended: nothing is echoed for an empty stream; a non-empty stream is
\* echoed as it is when it ends in a newline and with one newline added when it
\* does not; explain_with_ai gets the stream without the added newline.
C7_EchoNormalised ==
    Echoed =>
        \A s \in Streams :
            LET d == Decode(captured[s])
            IN  /\ d = <<>> => term[s] = <<>>
                /\ EndsInNewline(d) => term[s] = d
                /\ (d # <<>> /\ ~EndsInNewline(d)) => term[s] = d \o <<Newline>>
                /\ aiArgs # <<>> =>
                      (IF s = "out" THEN aiArgs[1].stdout ELSE aiArgs[1].stderr) = d
C7_Witness ==
    /\ pc = "exited"
    /\ captured["out"] = <<255, 97>>
    /\ term["out"] = <<ReplacementChar, 97, Newline>>
    /\ captured["err"] = <<>>
    /\ term["err"] = <<>>
    /\ aiArgs # <<>>
    /\ aiArgs[1].stdout = <<ReplacementChar, 97>>

C8_Fields == {<<"out", transcript[1].stdout>>, <<"err", transcript[1].stderr>>}
\* C8 as stated: a transcript field is "(empty)" exactly when its decoded
\* stream is empty or all whitespace, and otherwise is the stream unchanged.
C8_PlaceholderAsStated ==
    transcript # <<>> =>
        \A f \in C8_Fields :
            LET d == Decode(captured[f[1]])
            IN  /\ (f[2] = Placeholder) <=> Blank(d)
                /\ ~Blank(d) => f[2] = d
\* C8, amended: a transcript field is "(empty)" whenever its decoded stream is
\* empty or all whitespace, and otherwise is the stream unchanged (not
\* trimmed), each field on its own; a stream that itself reads "(empty)" is
\* passed unchanged and so reads like the placeholder.
C8_PlaceholderWhenBlank ==
    transcript # <<>> =>
        \A f \in C8_Fields :
            LET d == Decode(captured[f[1]])
            IN  /\ Blank(d) => f[2] = Placeholder
                /\ ~Blank(d) => f[2] = d
C8_Witness ==
    /\ transcript # <<>>
    /\ captured["out"] = <<32, 10>>
    /\ transcript[1].stdout = Placeholder
    /\ captured["err"] = <<97>>
    /\ transcript[1].stderr = <<97>>

\* C9: the banner is on standard output only when the explanation call
\* succeeded, followed by the explanation; when the call raised an error the
\* proxy wrote a failure notice to standard error and no banner.
C9_BannerOnlyOnSuccess ==
    pc = "exited" =>
        /\ "banner" \in Range(outLog) => aiOutcome = "ok"
        /\ aiOutcome = "ok" =>
              /\ Len(outLog) >= 2
              /\ SubSeq(outLog, Len(outLog) - 1, Len(outLog)) = <<"banner", "explanation">>
        /\ aiOutcome = "error" => "ai_failed" \in Range(errLog)

ChildBlockedOn(s) ==
    /\ pc = "communicate"
    /\ childState = "running"
    /\ sent[s] < Len(childWrites[s])
    /\ Len(pipe[s]) = PipeCap
C10_NoPipeDeadlock == \A s \in Streams : ChildBlockedOn(s) => ENABLED ProxyRead(s)
C10_CapturedInOrder ==
    \A s \in Streams :
        /\ captured[s] \o pipe[s] = SubSeq(childWrites[s], 1, sent[s])
        /\ code # <<>> => captured[s] = childWrites[s]
\* C10: while the child runs, a pipe the child is blocked on is one the proxy
\* can read, whatever the child wrote to either stream and in whatever order;
\* each buffer holds the bytes written to its stream, in order, and nothing of
\* the other stream; and once the child has finished the wait ends: run_nc
\* returns the buffers (or the user's interrupt is raised, C6).
C10_ParallelDrain ==
    /\ [](C10_NoPipeDeadlock /\ C10_CapturedInOrder)
    /\ (pc = "communicate" /\ childState = "exited")
          ~> (code # <<>> \/ interruptedAt = "wait")
C10_Witness ==
    /\ code # <<>>
    /\ \A s \in Streams : Len(childWrites[s]) > PipeCap /\ captured[s] = childWrites[s]
    /\ childWrites["out"] # childWrites["err"]

====
